---- MODULE Spec2Model ----
(***************************************************************************)
(* Ledger and voucher ("QR") engine of Alanpay-backend.                    *)
(*                                                                         *)
(* The store is the two tables `transaction` (the entry log) and `qrcode`  *)
(* (the vouchers).  Every route handler of app/route/pay.py is a request   *)
(* that runs on its own database session: each awaited statement is one    *)
(* atomic step against the committed store, objects added to the session   *)
(* are private until session.commit() appends them in one unit, and        *)
(* session.rollback() discards them.  The handlers take no row lock and    *)
(* ask for no isolation level, so every statement reads the store as it is *)
(* committed at that moment.  Money is counted in hundredths (Decimal with *)
(* two places), time in seconds.                                           *)
(***************************************************************************)
EXTENDS Integers, Sequences, FiniteSets, Bags, TLC

\* ---- bounds of the model ------------------------------------------------
NumUsers == 2
MaxAmount == 2
MaxSupply == 1
MaxEntries == 5
MaxReqs == 2
MaxQr == 1
MaxUse == 1
MaxQrIssue == 2

Users == 1..NumUsers
Amounts == 0..MaxAmount
Null == 0
None == -1

\* ---- program constants --------------------------------------------------
MAX_QR_ALIVE_HOUR == 24 * 7
SEND_ALIVE_SECONDS == 60
qr_alive_delta == MAX_QR_ALIVE_HOUR

\* TransactionType and QRType
TOPUP == "topup"
WITHDRAWAL == "withdrawal"
TRANSFER_SENT == "transfer_sent"
TRANSFER_RECEIVED == "transfer_received"
QR_PAYMENT == "qr_payment"
REQUEST_PAYMENT == "request_payment"
SEND_PAYMENT == "send_payment"

VARIABLES
  transaction,  \* table `transaction`: the committed entries, in id order
  qrcode,       \* table `qrcode`: the set of committed voucher rows
  nextQr,       \* the next primary key of table `qrcode`
  now,          \* datetime.now()
  req,          \* the requests in flight (a bag): position and session state
  resp          \* what the handler that finished in the last step returned

vars == <<transaction, qrcode, nextQr, now, req, resp>>

\* ---- rows ---------------------------------------------------------------
\* Transaction(...): a row of `transaction` as a handler builds it; its id is
\* its position in the table, txn is the commit that made it visible.
Transaction(user_id, amount, transaction_type, reference_user_id, qr_id) ==
  [user_id |-> user_id, amount |-> amount, transaction_type |-> transaction_type,
   reference_user_id |-> reference_user_id, qr_id |-> qr_id, txn |-> 0]

\* QRCode(...): a row of `qrcode`; qr_id is the public token (uuid4), modelled
\* as the fresh number that also becomes the primary key.
QRCode(id, qr_type, amount, max_use_count, expire, user_id) ==
  [id |-> id, qr_id |-> id, qr_type |-> qr_type, amount |-> amount,
   max_use_count |-> max_use_count, expire |-> expire, user_id |-> user_id]

NoQr == QRCode(Null, "none", Null, 0, None, Null)

\* ---- queries ------------------------------------------------------------
RECURSIVE SumAmount(_, _, _)
SumAmount(log, user_id, n) ==
  IF n = 0 THEN 0
  ELSE SumAmount(log, user_id, n - 1)
       + (IF log[n].user_id = user_id THEN log[n].amount ELSE 0)

\* A balance that lags the log: the sum without the newest entry.
total_balance_stale(user_id) ==
  IF transaction = <<>> THEN 0
  ELSE SumAmount(transaction, user_id, Len(transaction) - 1)

\* User.total_balance: SELECT COALESCE(SUM(amount), 0.00) WHERE user_id = :user_id
total_balance(user_id) == SumAmount(transaction, user_id, Len(transaction))

\* User.get_by_username: usernames are the ids of the accounts; any other
\* name finds nothing.
get_by_username(name) == IF name \in Users THEN name ELSE Null

\* QRCode.get_by_qr_id: the row with this token, or none.
get_by_qr_id(token) ==
  IF \E q \in qrcode : q.qr_id = token
  THEN CHOOSE q \in qrcode : q.qr_id = token
  ELSE NoQr

\* The count of all the entries that carry the id of the voucher.
current_use_count_entries(q) ==
  Cardinality({i \in 1..Len(transaction) : transaction[i].qr_id = q.id})

\* QRCode.current_use_count: SELECT COUNT(*) FROM transaction WHERE qr_id = :id
\*   AND user_id = (SELECT user_id FROM qrcode WHERE id = :id LIMIT 1)
current_use_count(q) ==
  IF \E o \in qrcode : o.id = q.id
  THEN LET owner == (CHOOSE o \in qrcode : o.id = q.id).user_id
       IN Cardinality({i \in 1..Len(transaction) :
             transaction[i].qr_id = q.id /\ transaction[i].user_id = owner})
  ELSE 0

\* The limit test off by one: > where the code has >=.
is_exceed_limit_off_by_one(q) == current_use_count(q) > q.max_use_count

\* QRCode.is_exceed_limit
is_exceed_limit(q) == current_use_count(q) >= q.max_use_count

\* The expiry test one second late.
is_expired_late(q, t) == q.expire # None /\ t > q.expire + 1

\* QRCode.is_expired at time t
is_expired(q, t) == q.expire # None /\ t > q.expire

\* QRCode.can_be_used
can_be_used(q, t) == ~is_expired(q, t)

\* ---- sessions and responses ---------------------------------------------
\* A request in flight: the handler op it runs for current_user `user`, the
\* await it is suspended at (pc), the voucher row its session has loaded
\* (qr), the value of datetime.now() it has read (t, 0 if none), the expiry
\* its caller asked for (expire), the rows added to its session and not yet
\* committed (pend).  For the record: the
\* id of the first row it committed (at) and how many it committed (wrote).
Request(op, user, amount, arg) ==
  [pc |-> "start", op |-> op, user |-> user, amount |-> amount, arg |-> arg,
   qr |-> NoQr, t |-> 0, expire |-> None, pend |-> <<>>, at |-> 0, wrote |-> 0]

\* No entry is shown.
NoDetails ==
  [id |-> Null, amount |-> 0, transaction_type |-> "none", reference_user_name |-> Null]

NoResp ==
  [op |-> "none", user |-> Null, amount |-> 0, arg |-> Null, qr |-> NoQr,
   exc |-> "none", detail |-> "", new_balance |-> 0, body |-> NoDetails,
   t |-> 0, expire |-> None, at |-> 0, wrote |-> 0]

\* The handler of request q returns (exc = "ok") or raises exc to its caller.
Response(q, exc, detail, new_balance) ==
  [op |-> q.op, user |-> q.user, amount |-> q.amount, arg |-> q.arg, qr |-> q.qr,
   exc |-> exc, detail |-> detail, new_balance |-> new_balance, body |-> NoDetails,
   t |-> q.t, expire |-> q.expire, at |-> q.at, wrote |-> q.wrote]

InFlight == BagToSet(req)
Without(q) == req (-) SetToBag({q})
With(q) == SetToBag({q})

\* Rows that the requests in flight may still commit.
Need(q) ==
  IF q.pc = "respond" THEN 0
  ELSE IF q.op \in {"transfer", "scan_qrcode"} THEN 2
  ELSE IF q.op = "withdraw" THEN 1 ELSE 0

RECURSIVE Reserved(_)
Reserved(b) ==
  IF b = EmptyBag THEN 0
  ELSE LET q == CHOOSE x \in BagToSet(b) : TRUE
       IN Need(q) + Reserved(b (-) SetToBag({q}))

\* A new request is accepted while a session is free and the table has room
\* for the n rows it may write.
Accept(n) ==
  /\ BagCardinality(req) < MaxReqs
  /\ Len(transaction) + Reserved(req) + n <= MaxEntries

\* session.commit(): the pending rows become visible together, appended to
\* the table in the order they were added.
RECURSIVE Stamp(_, _)
Stamp(rows, txn) ==
  IF rows = <<>> THEN <<>>
  ELSE <<[Head(rows) EXCEPT !.txn = txn]>> \o Stamp(Tail(rows), txn)

\* A commit that makes only the first pending row visible.
commit_first_only(rows) == transaction \o Stamp(<<Head(rows)>>, Len(transaction) + 1)

\* A commit that numbers its rows from the last id in use, not from the one
\* after it: the first row replaces the last committed entry.
commit_from_last_id(rows) ==
  IF transaction = <<>> THEN Stamp(rows, 1)
  ELSE SubSeq(transaction, 1, Len(transaction) - 1) \o Stamp(rows, Len(transaction))

commit(rows) == transaction \o Stamp(rows, Len(transaction) + 1)

\* A column qr_id with no foreign key: nothing is checked at commit.
ForeignKeyUnchecked(rows) == TRUE

\* The foreign key transaction.qr_id -> qrcode.id, checked at commit.
ForeignKeyOk(rows) ==
  \A i \in 1..Len(rows) :
     rows[i].qr_id = Null \/ \E q \in qrcode : q.id = rows[i].qr_id

\* Money that entered the system through top-ups.
RECURSIVE Supply(_)
Supply(n) ==
  IF n = 0 THEN 0
  ELSE Supply(n - 1)
       + (IF transaction[n].transaction_type = TOPUP THEN transaction[n].amount ELSE 0)

Init ==
  /\ transaction = <<>>
  /\ qrcode = {}
  /\ nextQr = 1
  /\ now = 1
  /\ req = EmptyBag
  /\ resp = NoResp

\* A handler raises (or returns) at its first await.
Reply(q, exc, detail) ==
  /\ resp' = Response(q, exc, detail, 0)
  /\ UNCHANGED <<transaction, qrcode, nextQr, now, req>>

\* A handler of request q raises at a later await; its session is rolled back.
Raise(q, exc, detail) ==
  /\ resp' = Response(q, exc, detail, 0)
  /\ req' = Without(q)
  /\ UNCHANGED <<transaction, qrcode, nextQr, now>>

\* A handler of request q goes on to its next await as q2.
Goto(q, q2) ==
  /\ req' = Without(q) (+) With(q2)
  /\ resp' = NoResp

\* ---- POST /api/pay/topup ------------------------------------------------
\* Validation and the commit of the one entry; an exception is logged and
\* not re-raised, so the handler returns nothing.  The validation, and the
\* same with a minimum of more than one unit:
topup_check_minimum(amount) ==
  IF amount <= 1
  THEN <<"InvalidAmountException", "Top-up amount must be greater than zero">>
  ELSE <<"ok", "">>

topup_check(amount) ==
  IF amount <= 0
  THEN <<"InvalidAmountException", "Top-up amount must be greater than zero">>
  ELSE <<"ok", "">>

topup(user, amount) ==
  LET q == Request("topup", user, amount, Null)
      check == topup_check(amount)
  IN
  /\ Accept(1)
  /\ Supply(Len(transaction)) + amount <= MaxSupply
  /\ IF check[1] # "ok"
     THEN Reply(q, "NoResult", check[2])
     ELSE /\ transaction' = commit(<<Transaction(user, amount, TOPUP, Null, Null)>>)
          /\ req' = req (+) With([q EXCEPT !.pc = "respond",
                                    !.at = Len(transaction) + 1, !.wrote = 1])
          /\ resp' = NoResp
          /\ UNCHANGED <<qrcode, nextQr, now>>

\* The response of a payment handler: new_balance is read again, after the
\* commit, for the account `who`.
respond(q, op, who, message) ==
  /\ q.pc = "respond"
  /\ q.op = op
  /\ resp' = Response(q, "ok", message, total_balance(who))
  /\ req' = Without(q)
  /\ UNCHANGED <<transaction, qrcode, nextQr, now>>

topup_respond(q) == respond(q, "topup", q.user, "Top-up processed successfully")

\* ---- POST /api/pay/withdraw ---------------------------------------------
\* Validation against the balance read now; the entry is added to the
\* session and waits for the commit.
\* The same checks with >= in the last one: the whole balance cannot be
\* withdrawn.
withdraw_check_strict(amount, balance) ==
  IF amount <= 0
  THEN <<"InvalidAmountException", "Withdrawal amount must be greater than zero">>
  ELSE IF balance <= 0
  THEN <<"InsufficientBalanceException", "No balance available for withdrawal">>
  ELSE IF amount >= balance
  THEN <<"InsufficientBalanceException", "Withdrawal amount exceeds available balance">>
  ELSE <<"ok", "">>

withdraw_check(amount, balance) ==
  IF amount <= 0
  THEN <<"InvalidAmountException", "Withdrawal amount must be greater than zero">>
  ELSE IF balance <= 0
  THEN <<"InsufficientBalanceException", "No balance available for withdrawal">>
  ELSE IF amount > balance
  THEN <<"InsufficientBalanceException", "Withdrawal amount exceeds available balance">>
  ELSE <<"ok", "">>

withdraw(user, amount) ==
  LET q == Request("withdraw", user, amount, Null)
      check == withdraw_check(amount, total_balance(user))
  IN
  /\ Accept(1)
  /\ IF check[1] # "ok"
     THEN Reply(q, check[1], check[2])
     ELSE /\ req' = req (+) With([q EXCEPT !.pc = "commit",
                     !.pend = <<Transaction(user, -amount, WITHDRAWAL, Null, Null)>>])
          /\ resp' = NoResp
          /\ UNCHANGED <<transaction, qrcode, nextQr, now>>

\* session.commit() of a handler whose pending rows reference no voucher.
commit_step(q, op) ==
  /\ q.pc = "commit"
  /\ q.op = op
  /\ transaction' = commit(q.pend)
  /\ Goto(q, [q EXCEPT !.pc = "respond", !.pend = <<>>,
                       !.at = Len(transaction) + 1, !.wrote = Len(q.pend)])
  /\ UNCHANGED <<qrcode, nextQr, now>>

withdraw_commit(q) == commit_step(q, "withdraw")
withdraw_respond(q) == respond(q, "withdraw", q.user, "Withdrawal processed successfully")

\* ---- POST /api/pay/transfer ---------------------------------------------
\* Validation of the amount and of the recipient (User.get_by_username).
transfer(user, amount, recipient_username) ==
  LET q == Request("transfer", user, amount, recipient_username)
      recipient == get_by_username(recipient_username)
  IN
  /\ Accept(2)
  /\ IF amount <= 0
     THEN Reply(q, "InvalidAmountException", "Transfer amount must be greater than zero")
     ELSE IF recipient = Null
     THEN Reply(q, "UserNotFoundException", "User not found")
     ELSE IF recipient = user
     THEN Reply(q, "InvalidAmountException", "Cannot transfer to yourself")
     ELSE /\ req' = req (+) With([q EXCEPT !.pc = "balance"])
          /\ resp' = NoResp
          /\ UNCHANGED <<transaction, qrcode, nextQr, now>>

\* The two entries with the reference of the second one pointing at the
\* recipient as well.
transfer_entries_uncrossed(q) ==
  <<Transaction(q.user, -q.amount, TRANSFER_SENT, get_by_username(q.arg), Null),
    Transaction(get_by_username(q.arg), q.amount, TRANSFER_RECEIVED, get_by_username(q.arg), Null)>>

\* The two entries with the sign of the debit on the credit as well.
transfer_entries_both_debits(q) ==
  <<Transaction(q.user, -q.amount, TRANSFER_SENT, get_by_username(q.arg), Null),
    Transaction(get_by_username(q.arg), -q.amount, TRANSFER_RECEIVED, q.user, Null)>>

\* sender_transaction and recipient_transaction of a transfer.
transfer_entries(q) ==
  <<Transaction(q.user, -q.amount, TRANSFER_SENT, get_by_username(q.arg), Null),
    Transaction(get_by_username(q.arg), q.amount, TRANSFER_RECEIVED, q.user, Null)>>

\* The balance check of the sender, and the two entries added to the session.
transfer_balance(q) ==
  /\ q.pc = "balance"
  /\ q.op = "transfer"
  /\ IF q.amount > total_balance(q.user)
     THEN Raise(q, "InsufficientBalanceException", "Transfer amount exceeds available balance")
     ELSE /\ Goto(q, [q EXCEPT !.pc = "commit", !.pend = transfer_entries(q)])
          /\ UNCHANGED <<transaction, qrcode, nextQr, now>>

transfer_commit(q) == commit_step(q, "transfer")
transfer_respond(q) == respond(q, "transfer", q.user, "Transfer processed successfully")

\* ---- GET /api/pay/transaction/{transaction_id} ---------------------------
\* session.get(Transaction, transaction_id): the row with this id, if any.
HasEntry(transaction_id) == transaction_id \in 1..Len(transaction)

\* The lookup with no test of whose entry it is.
details_check_any_owner(transaction_id, user) ==
  IF ~HasEntry(transaction_id)
  THEN <<"TransactionNotFoundException", "Transaction not found">>
  ELSE <<"ok", "">>

\* The row must exist and belong to current_user.
details_check(transaction_id, user) ==
  IF ~HasEntry(transaction_id)
  THEN <<"TransactionNotFoundException", "Transaction not found">>
  ELSE IF transaction[transaction_id].user_id # user
  THEN <<"UnauthorizedException", "Access denied to this transaction">>
  ELSE <<"ok", "">>

\* The dictionary the handler returns for row transaction_id.
details(transaction_id) ==
  LET row == transaction[transaction_id] IN
  [id |-> transaction_id, amount |-> row.amount,
   transaction_type |-> row.transaction_type,
   reference_user_name |-> row.reference_user_id]

get_transaction_details(user, transaction_id) ==
  LET q == Request("get_transaction_details", user, 0, transaction_id)
      check == details_check(transaction_id, user)
  IN
  /\ BagCardinality(req) < MaxReqs
  /\ resp' = IF check[1] = "ok"
             THEN [Response(q, "ok", "", 0) EXCEPT !.body = details(transaction_id)]
             ELSE Response(q, check[1], check[2], 0)
  /\ UNCHANGED <<transaction, qrcode, nextQr, now, req>>

\* ---- POST /api/pay/qrcode/request ---------------------------------------
\* The expiry a caller may ask for: none, one already past, one beyond the
\* ceiling.
ExpireInputs == {None, now - 1, now + qr_alive_delta + 1}

\* The expiry as asked, without the ceiling.
expire_at_unclamped(expire, t) ==
  IF expire = None THEN t + qr_alive_delta ELSE expire

\* min(collect.expire or t + settings.qr_alive_delta, t + settings.qr_alive_delta)
expire_at(expire, t) ==
  LET asked == IF expire = None THEN t + qr_alive_delta ELSE expire
  IN IF asked < t + qr_alive_delta THEN asked ELSE t + qr_alive_delta

\* Vouchers that requests in flight will still insert.
SendsInFlight == BagCardinality([q \in {x \in InFlight : x.op = "qrcode_send"} |-> CopiesIn(q, req)])

\* The voucher table has room for one more voucher, up to the id limit.
QrRoom(limit) == nextQr + SendsInFlight <= limit

\* The voucher is built from the request as it is and committed.
qrcode_request(user, amount, max_user_count, expire) ==
  LET code == QRCode(nextQr, REQUEST_PAYMENT, amount, max_user_count,
                     expire_at(expire, now), user)
      q == [Request("qrcode_request", user, amount, max_user_count) EXCEPT
              !.qr = code, !.t = now, !.expire = expire]
  IN
  /\ BagCardinality(req) < MaxReqs
  /\ qrcode' = qrcode \cup {code}
  /\ nextQr' = nextQr + 1
  /\ resp' = Response(q, "ok", REQUEST_PAYMENT, 0)
  /\ UNCHANGED <<transaction, now, req>>

\* ---- POST /api/pay/qrcode/send ------------------------------------------
\* QRCode.clean_unused_send_qrcodes: DELETE FROM qrcode WHERE qr_type =
\* SEND_PAYMENT AND id NOT IN (SELECT qr_id FROM transaction).  NOT IN is
\* true of a row only if the sub-query yields neither its id nor a NULL.
NotInQrIds(id) ==
  \A i \in 1..Len(transaction) :
     transaction[i].qr_id # Null /\ transaction[i].qr_id # id

\* The deletion without its NOT IN condition: every send voucher goes.
clean_send_qrcodes ==
  {c \in qrcode : c.qr_type # SEND_PAYMENT}

clean_unused_send_qrcodes ==
  {c \in qrcode : ~(c.qr_type = SEND_PAYMENT /\ NotInQrIds(c.id))}

\* The voucher is built, then the unused send vouchers are deleted and that
\* deletion is committed.
qrcode_send(user) ==
  LET code == QRCode(Null, SEND_PAYMENT, Null, 1, now + SEND_ALIVE_SECONDS, user)
      q == [Request("qrcode_send", user, 0, Null) EXCEPT
              !.pc = "commit", !.qr = code, !.t = now]
  IN
  /\ BagCardinality(req) < MaxReqs
  /\ qrcode' = clean_unused_send_qrcodes
  /\ req' = req (+) With(q)
  /\ resp' = NoResp
  /\ UNCHANGED <<transaction, nextQr, now>>

\* session.add(qrcode); session.commit(): the new voucher gets its id.
qrcode_send_commit(q) ==
  LET code == [q.qr EXCEPT !.id = nextQr, !.qr_id = nextQr] IN
  /\ q.pc = "commit"
  /\ q.op = "qrcode_send"
  /\ qrcode' = qrcode \cup {code}
  /\ nextQr' = nextQr + 1
  /\ resp' = Response([q EXCEPT !.qr = code], "ok", SEND_PAYMENT, 0)
  /\ req' = Without(q)
  /\ UNCHANGED <<transaction, now>>

\* ---- POST /api/pay/qrcode/scan/{qr_id} ----------------------------------
\* QRCode.get_by_qr_id and the expiry test on the loaded row.
scan_qrcode(user, qr_id, amount) ==
  LET code == get_by_qr_id(qr_id)
      q == [Request("scan_qrcode", user, amount, qr_id) EXCEPT !.qr = code, !.t = now]
  IN
  /\ Accept(2)
  /\ IF code = NoQr
     THEN Reply([q EXCEPT !.qr = NoQr], "TransactionNotFoundException", "QR code not found")
     ELSE IF is_expired(code, now)
     THEN Reply(q, "TransactionNotFoundException", "QR code has expired or is invalid")
     ELSE /\ req' = req (+) With([q EXCEPT !.pc = "count"])
          /\ resp' = NoResp
          /\ UNCHANGED <<transaction, qrcode, nextQr, now>>

\* The amount taken from the voucher whatever its type.
payment_amount_of_voucher(q) == q.qr.amount

\* Who pays and how much, by the type of the loaded voucher.
payment_amount(q) == IF q.qr.qr_type = REQUEST_PAYMENT THEN q.qr.amount ELSE q.amount
sender(q) == IF q.qr.qr_type = REQUEST_PAYMENT THEN q.user ELSE q.qr.user_id
recipient(q) == IF q.qr.qr_type = REQUEST_PAYMENT THEN q.qr.user_id ELSE q.user

\* The same checks without the test of the parties.
scan_check_no_self(q) ==
  IF q.qr.qr_type = REQUEST_PAYMENT /\ q.qr.amount <= 0
  THEN <<"InvalidAmountException", "QR code has invalid amount">>
  ELSE IF q.qr.qr_type = SEND_PAYMENT /\ q.amount <= 0
  THEN <<"InvalidAmountException", "Amount must be specified and greater than zero">>
  ELSE <<"ok", "">>

\* The checks of the amount and of the parties, by the type of the voucher.
scan_check(q) ==
  IF q.qr.qr_type = REQUEST_PAYMENT /\ q.qr.amount <= 0
  THEN <<"InvalidAmountException", "QR code has invalid amount">>
  ELSE IF q.qr.qr_type = SEND_PAYMENT /\ q.amount <= 0
  THEN <<"InvalidAmountException", "Amount must be specified and greater than zero">>
  ELSE IF recipient(q) = sender(q)
  THEN <<"InvalidAmountException", "Cannot transfer to yourself">>
  ELSE <<"ok", "">>

\* QRCode.is_exceed_limit, then the checks of the amount and of the parties.
scan_count(q) ==
  /\ q.pc = "count"
  /\ q.op = "scan_qrcode"
  /\ IF is_exceed_limit(q.qr)
     THEN Raise(q, "TransactionNotFoundException", "QR code has reached its maximum usage limit")
     ELSE IF scan_check(q)[1] # "ok"
     THEN Raise(q, scan_check(q)[1], scan_check(q)[2])
     ELSE /\ Goto(q, [q EXCEPT !.pc = "balance"])
          /\ UNCHANGED <<transaction, qrcode, nextQr, now>>

\* The balance check of the sender, and the two entries added to the session.
scan_balance(q) ==
  /\ q.pc = "balance"
  /\ q.op = "scan_qrcode"
  /\ IF payment_amount(q) > total_balance(sender(q))
     THEN Raise(q, "InsufficientBalanceException", "Transfer amount exceeds available balance")
     ELSE /\ Goto(q, [q EXCEPT !.pc = "commit", !.pend =
                 <<Transaction(sender(q), -payment_amount(q), QR_PAYMENT, recipient(q), q.qr.id),
                   Transaction(recipient(q), payment_amount(q), QR_PAYMENT, sender(q), q.qr.id)>>])
          /\ UNCHANGED <<transaction, qrcode, nextQr, now>>

\* session.commit(): both entries, or an IntegrityError if the voucher row
\* they reference is gone.
scan_commit(q) ==
  /\ q.pc = "commit"
  /\ q.op = "scan_qrcode"
  /\ IF ForeignKeyOk(q.pend)
     THEN /\ transaction' = commit(q.pend)
          /\ Goto(q, [q EXCEPT !.pc = "respond", !.pend = <<>>,
                               !.at = Len(transaction) + 1, !.wrote = Len(q.pend)])
          /\ UNCHANGED <<qrcode, nextQr, now>>
     ELSE Raise(q, "IntegrityError", "foreign key violation")

scan_respond(q) == respond(q, "scan_qrcode", q.user, "QR Payment processed successfully")

\* ---- GET /api/pay/qrcode/uuid/{qr_id} ------------------------------------
\* The row must exist and, if it is a send voucher, pass can_be_used.
get_qrcode_by_uuid(user, qr_id) ==
  LET code == get_by_qr_id(qr_id)
      q == [Request("get_qrcode_by_uuid", user, 0, qr_id) EXCEPT !.t = now]
  IN
  /\ BagCardinality(req) < MaxReqs
  /\ resp' = IF code = NoQr
             THEN Response(q, "TransactionNotFoundException", "QR code not found", 0)
             ELSE IF code.qr_type = SEND_PAYMENT /\ ~can_be_used(code, now)
             THEN Response(q, "TransactionNotFoundException",
                           "QR code has expired or is invalid", 0)
             ELSE Response([q EXCEPT !.qr = code], "ok", "", 0)
  /\ UNCHANGED <<transaction, qrcode, nextQr, now, req>>

\* ---- the clock and the caller -------------------------------------------
\* Time passes: the clock reaches the expiry of a voucher, or passes it.
Tick(t) ==
  /\ t > now
  /\ now' = t
  /\ resp' = NoResp
  /\ UNCHANGED <<transaction, qrcode, nextQr, req>>

\* The caller goes away while the handler waits: its coroutine is cancelled, the
\* session is closed and what it had pending is rolled back.
Cancel(q) ==
  /\ resp' = Response(q, "CancelledError", "", 0)
  /\ req' = Without(q)
  /\ UNCHANGED <<transaction, qrcode, nextQr, now>>

\* ---- the database -------------------------------------------------------
\* session.commit() of a withdrawal, transfer or redemption fails on a write
\* conflict with another open session: the handler's except clause rolls
\* back and re-raises what the commit raised.
ConflictOps == {"withdraw", "transfer", "scan_qrcode"}

commit_conflict(q) ==
  /\ q.pc = "commit"
  /\ q.op \in ConflictOps
  /\ BagCardinality(req) > 1
  /\ Raise(q, "DBAPIError", "could not serialize access")

Next ==
  \/ \E u \in Users, a \in Amounts : topup(u, a)
  \/ \E q \in InFlight : topup_respond(q)
  \/ \E u \in Users, a \in Amounts : withdraw(u, a)
  \/ \E q \in InFlight : withdraw_commit(q)
  \/ \E q \in InFlight : withdraw_respond(q)
  \/ \E u \in Users, a \in Amounts, n \in 0..NumUsers : transfer(u, a, n)
  \/ \E q \in InFlight : transfer_balance(q)
  \/ \E q \in InFlight : transfer_commit(q)
  \/ \E q \in InFlight : transfer_respond(q)
  \/ \E u \in Users, a \in Amounts, k \in 0..MaxUse, e \in ExpireInputs :
        QrRoom(MaxQr) /\ qrcode_request(u, a, k, e)
  \/ \E u \in Users : QrRoom(MaxQr) /\ qrcode_send(u)
  \/ \E q \in InFlight : qrcode_send_commit(q)
  \/ \E u \in Users, id \in 1..MaxQr, a \in Amounts : scan_qrcode(u, id, a)
  \/ \E q \in InFlight : scan_count(q)
  \/ \E q \in InFlight : scan_balance(q)
  \/ \E q \in InFlight : scan_commit(q)
  \/ \E q \in InFlight : scan_respond(q)
  \/ \E c \in qrcode, d \in {0, 1} : Tick(c.expire + d)
  \/ \E q \in InFlight : Cancel(q)
  \/ \E q \in InFlight : commit_conflict(q)

Spec == Init /\ [][Next]_vars

\* The same engine when its caller sends one request at a time.
Accepts ==
  \/ BagCardinality(req') > BagCardinality(req)
  \/ req' = req /\ resp' # NoResp

NextSerial == Next /\ (Accepts => req = EmptyBag)

SpecSerial == Init /\ [][NextSerial]_vars

\* The engine when payments come one at a time and entries and vouchers are
\* looked up at any time, by any account, under the ids in use and the next
\* one.
NextDetails ==
  \/ NextSerial
  \/ \E u \in Users, id \in 1..(Len(transaction) + 1) : get_transaction_details(u, id)
  \/ \E u \in Users, id \in 1..nextQr : get_qrcode_by_uuid(u, id)

SpecDetails == Init /\ [][NextDetails]_vars

\* The same engine with room for MaxQrIssue vouchers, when its callers top up
\* one unit, issue vouchers and redeem them.
NextIssue ==
  \/ \E u \in Users : topup(u, 1)
  \/ \E q \in InFlight : topup_respond(q)
  \/ \E u \in Users : QrRoom(MaxQrIssue) /\ qrcode_request(u, 1, 1, None)
  \/ \E u \in Users : QrRoom(MaxQrIssue) /\ qrcode_send(u)
  \/ \E q \in InFlight : qrcode_send_commit(q)
  \/ \E u \in Users, id \in 1..MaxQrIssue : scan_qrcode(u, id, 1)
  \/ \E q \in InFlight : scan_count(q)
  \/ \E q \in InFlight : scan_balance(q)
  \/ \E q \in InFlight : scan_commit(q)
  \/ \E q \in InFlight : scan_respond(q)
  \/ \E c \in qrcode : Tick(c.expire + 1)
  \/ \E q \in InFlight : Cancel(q)
  \/ \E q \in InFlight : commit_conflict(q)

SpecIssue == Init /\ [][NextIssue]_vars

\* ---- vocabulary of the properties ---------------------------------------
\* The error kind a caller is told: every exception is an HTTP 400 whose
\* detail is the only thing that tells the kinds apart.
ErrorKind(exc, detail) ==
  IF exc = "InsufficientBalanceException" THEN "InsufficientBalance"
  ELSE IF exc = "UserNotFoundException" THEN "AccountNotFound"
  ELSE IF exc = "InvalidAmountException"
  THEN (IF detail = "Cannot transfer to yourself"
        THEN "SelfTransferDisallowed" ELSE "InvalidAmount")
  ELSE IF exc = "UnauthorizedException" THEN "Unauthorized"
  ELSE IF exc = "TransactionNotFoundException"
  THEN (IF detail = "QR code not found" THEN "VoucherNotFound"
        ELSE IF detail = "Transaction not found" THEN "EntryNotFound"
        ELSE IF detail \in {"QR code has expired or is invalid",
                            "QR code has reached its maximum usage limit"}
        THEN "VoucherUnusable" ELSE "Other")
  ELSE exc

Kind(r) == ErrorKind(r.exc, r.detail)
Cancelled(r) == r.exc = "CancelledError"

\* The sum of the committed entries of an account, entry by entry.
RECURSIVE SumOver(_)
SumOver(S) ==
  IF S = {} THEN 0
  ELSE LET i == CHOOSE x \in S : TRUE
       IN transaction[i].amount + SumOver(S \ {i})

EntriesOf(u) == {i \in 1..Len(transaction) : transaction[i].user_id = u}
LedgerSum(u) == SumOver(EntriesOf(u))

\* The uses of a voucher: the redemptions (commits) whose entries carry its id.
use_count(id) ==
  Cardinality({transaction[i].txn : i \in {j \in 1..Len(transaction) :
                                             transaction[j].qr_id = id}})

\* What the owner of voucher c has received through it.
VoucherIncome(c) ==
  SumOver({i \in 1..Len(transaction) :
             transaction[i].qr_id = c.id /\ transaction[i].user_id = c.user_id})

IsScan(q) == q.op = "scan_qrcode" /\ q.qr # NoQr
IsRedeemRequest(q) == IsScan(q) /\ q.qr.qr_type = REQUEST_PAYMENT
IsRedeemSend(q) == IsScan(q) /\ q.qr.qr_type = SEND_PAYMENT

\* The voucher of attempt q had expired when the attempt read the clock.
ExpiredFor(q) == q.qr.expire # None /\ q.qr.expire < q.t
\* The voucher of attempt q has no use left.
ExhaustedFor(q) == use_count(q.qr.id) >= q.qr.max_use_count

\* In this step request q leaves (its handler ends), or a request q arrives
\* at the await that q names.
Left(q) == CopiesIn(q, req') < CopiesIn(q, req)
Entered(q) == CopiesIn(q, req') > CopiesIn(q, req)

\* Entries i and i + 1 are the two halves of one commit: debit first, credit
\* second, exact negatives, each naming the other account.
IsPair(i) ==
  /\ i >= 1
  /\ i + 1 <= Len(transaction)
  /\ LET d == transaction[i]
         c == transaction[i + 1]
     IN /\ d.txn = i
        /\ c.txn = i
        /\ d.amount < 0
        /\ c.amount = -d.amount
        /\ d.reference_user_id = c.user_id
        /\ c.reference_user_id = d.user_id
        /\ d.qr_id = c.qr_id
        /\ \/ d.transaction_type = TRANSFER_SENT /\ c.transaction_type = TRANSFER_RECEIVED
           \/ d.transaction_type = QR_PAYMENT /\ c.transaction_type = QR_PAYMENT

PairKinds == {TRANSFER_SENT, TRANSFER_RECEIVED, QR_PAYMENT}
PairOps == {"transfer", "scan_qrcode"}

\* ---- C1 -----------------------------------------------------------------
\* C1: under any interleaving of the operations that debit an account, the
\* balance of every account (the sum of its committed entries) is never
\* below zero.
NoOverdraft == \A u \in Users : LedgerSum(u) >= 0

\* ---- C2 -----------------------------------------------------------------
\* C2: in every reachable state the number of redemptions of a voucher is
\* at most its max_use_count, however many attempts run concurrently.
UseCountBounded == \A c \in qrcode : use_count(c.id) <= c.max_use_count

\* ---- C3 -----------------------------------------------------------------
\* C3: in every state, whatever is in flight, has failed or was cancelled,
\* every committed entry of a transfer or of a redemption is one half of a
\* complete pair (debit on the payer, credit of the same magnitude on the
\* payee, made visible by the same commit), and every transfer or redemption
\* has made visible either none of its entries or both.
CompletePairs ==
  /\ \A i \in 1..Len(transaction) :
        transaction[i].transaction_type \in PairKinds => IsPair(i) \/ IsPair(i - 1)
  /\ \A q \in InFlight \cup {resp} :
        q.op \in PairOps => q.wrote = 0 \/ (q.wrote = 2 /\ IsPair(q.at))

\* A transfer has committed its pair while another one still holds its two
\* entries pending.
CompletePairsWitness ==
  /\ \E i \in 1..Len(transaction) : transaction[i].transaction_type = TRANSFER_SENT
  /\ \E q \in InFlight : q.op \in PairOps /\ Len(q.pend) = 2

\* ---- C4 -----------------------------------------------------------------
\* C4: the balance of every account, as the engine computes it and as every
\* response reports it, is the sum of the committed entries of that account
\* at that moment, and zero for an account without entries.
BalanceFromLog ==
  /\ \A u \in Users : total_balance(u) = LedgerSum(u)
  /\ \A u \in Users : EntriesOf(u) = {} => total_balance(u) = 0
  /\ resp.exc = "ok" /\ resp.wrote > 0 => resp.new_balance = LedgerSum(resp.user)

\* A response reports a balance that includes entries committed by others
\* after the commit of its own.
BalanceFromLogWitness ==
  /\ resp.exc = "ok"
  /\ resp.wrote > 0
  /\ Len(transaction) > resp.at + resp.wrote - 1
  /\ \E u \in Users : EntriesOf(u) = {}

\* ---- C5 -----------------------------------------------------------------
\* C5: a withdrawal that runs alone succeeds exactly when amount > 0 and the
\* balance before it is at least amount; a success appends one withdrawal
\* entry of -amount as the newest entry and reports the balance less amount;
\* a failure appends nothing, and is InsufficientBalance when the amount is
\* positive and above the balance.
WithdrawAlone ==
  resp.op = "withdraw" /\ ~Cancelled(resp) =>
    LET ok == resp.exc = "ok"
        before == LedgerSum(resp.user) + (IF ok THEN resp.amount ELSE 0)
    IN /\ ok <=> (resp.amount > 0 /\ before >= resp.amount)
       /\ ok => /\ resp.wrote = 1
                /\ resp.at = Len(transaction)
                /\ transaction[resp.at] =
                     [user_id |-> resp.user, amount |-> -resp.amount,
                      transaction_type |-> WITHDRAWAL, reference_user_id |-> Null,
                      qr_id |-> Null, txn |-> resp.at]
                /\ resp.new_balance = before - resp.amount
       /\ ~ok => resp.wrote = 0
       /\ resp.amount <= 0 => Kind(resp) = "InvalidAmount"
       /\ resp.amount > 0 /\ resp.amount > before => Kind(resp) = "InsufficientBalance"

\* The whole balance was withdrawn and exactly zero is left.
WithdrawAloneWitness ==
  /\ resp.op = "withdraw"
  /\ resp.exc = "ok"
  /\ resp.amount > 0
  /\ resp.new_balance = 0

\* ---- C6 -----------------------------------------------------------------
\* C6: an operation that ends with a validation error returns that error to
\* its caller; for a top-up of a non-positive amount the caller is told
\* InvalidAmount.
ValidationErrorReturned ==
  resp.op = "topup" /\ resp.amount <= 0 => Kind(resp) = "InvalidAmount"

\* ---- C7 -----------------------------------------------------------------
\* An attempt to pay oneself: a transfer to one's own username, or a
\* redemption of one's own voucher.
SelfPay(q) ==
  \/ q.op = "transfer" /\ q.arg = q.user
  \/ IsScan(q) /\ q.qr.user_id = q.user

\* The amount such an attempt would move.
PayAmount(q) == IF IsRedeemRequest(q) THEN q.qr.amount ELSE q.amount

\* The voucher of a self-redemption was not usable when it was tested.
Unusable(q) == IsScan(q) /\ (ExpiredFor(q) \/ ExhaustedFor(q))

\* C7 (as the code has it): an attempt to pay oneself never gets past the
\* checks and appends no entries; unless the voucher is unusable, it fails
\* with an InvalidAmountException, whose detail is "Cannot transfer to
\* yourself" when the amount to move is positive and the amount error
\* otherwise.
SelfPaymentRejected ==
  /\ \A q \in InFlight : SelfPay(q) => q.pc = "count" /\ q.pend = <<>> /\ q.wrote = 0
  /\ SelfPay(resp) => resp.wrote = 0 /\ resp.exc # "ok"
  /\ SelfPay(resp) /\ ~Cancelled(resp) =>
       IF Unusable(resp) THEN Kind(resp) = "VoucherUnusable"
       ELSE /\ resp.exc = "InvalidAmountException"
            /\ Kind(resp) = IF PayAmount(resp) > 0
                            THEN "SelfTransferDisallowed" ELSE "InvalidAmount"

\* The owner of a usable voucher with a positive amount tried to redeem it.
SelfPaymentRejectedWitness ==
  /\ IsScan(resp)
  /\ SelfPay(resp)
  /\ ~Unusable(resp)
  /\ PayAmount(resp) > 0
  /\ Kind(resp) = "SelfTransferDisallowed"

\* C7 (as stated): an attempt to pay oneself, the voucher being usable,
\* always fails with the kind SelfTransferDisallowed.
SelfPaymentAlwaysSelfTransfer ==
  SelfPay(resp) /\ ~Cancelled(resp) /\ ~Unusable(resp) =>
     Kind(resp) = "SelfTransferDisallowed"

\* ---- C8 -----------------------------------------------------------------
\* C8: a redemption attempt that finds the expiry of its voucher earlier
\* than the time it reads fails with VoucherUnusable, appends nothing and
\* never gets past that test, whatever the uses, the type, the redeemer and
\* the balances.
ExpiredRefused ==
  /\ \A q \in InFlight : IsScan(q) => ~ExpiredFor(q)
  /\ IsScan(resp) /\ ExpiredFor(resp) =>
       Kind(resp) = "VoucherUnusable" /\ resp.wrote = 0

\* An expired request voucher with a use left was refused to a redeemer who
\* is not its owner and could have paid it.
ExpiredRefusedWitness ==
  /\ IsRedeemRequest(resp)
  /\ ExpiredFor(resp)
  /\ resp.user # resp.qr.user_id
  /\ resp.qr.amount > 0
  /\ use_count(resp.qr.id) < resp.qr.max_use_count
  /\ LedgerSum(resp.user) >= resp.qr.amount

\* ---- C9 -----------------------------------------------------------------
\* The two entries that redemption q of voucher q.qr committed, payer first.
RedemptionEntries(q, payer, payee, amount) ==
  /\ q.wrote = 2
  /\ q.at + 1 <= Len(transaction)
  /\ transaction[q.at] =
       [user_id |-> payer, amount |-> -amount, transaction_type |-> QR_PAYMENT,
        reference_user_id |-> payee, qr_id |-> q.qr.id, txn |-> q.at]
  /\ transaction[q.at + 1] =
       [user_id |-> payee, amount |-> amount, transaction_type |-> QR_PAYMENT,
        reference_user_id |-> payer, qr_id |-> q.qr.id, txn |-> q.at]

\* A redemption of a request voucher that succeeds has appended exactly two
\* entries with the id of the voucher, -amount on the redeemer and +amount on
\* the owner, each naming the other; so the owner of a request voucher has
\* received through it its amount times the number of its redemptions.
RequestRedemptionEntries ==
  /\ IsRedeemRequest(resp) /\ resp.exc = "ok" => resp.wrote = 2
  /\ \A q \in InFlight \cup {resp} :
        IsRedeemRequest(q) /\ q.wrote > 0 =>
           RedemptionEntries(q, q.user, q.qr.user_id, q.qr.amount)
  /\ \A c \in qrcode :
        c.qr_type = REQUEST_PAYMENT => VoucherIncome(c) = c.amount * use_count(c.id)

\* An attempt that comes to the limit test when the request voucher has
\* been redeemed max_use_count times ends there, with VoucherUnusable.
ExhaustedRequestRefused ==
  \A q \in InFlight :
     IsRedeemRequest(q) /\ q.pc = "count" /\ ExhaustedFor(q) /\ Left(q) =>
        /\ resp'.op = q.op
        /\ Cancelled(resp') \/ Kind(resp') = "VoucherUnusable"

\* C9: a successful redemption of a request voucher appends exactly the two
\* entries -amount on the redeemer and +amount on the owner, both with the
\* id of the voucher and each referencing the other account; the owner has
\* received amount times the number of redemptions; and an attempt made
\* after max_use_count redemptions fails with VoucherUnusable.
RequestRedemption ==
  /\ []RequestRedemptionEntries
  /\ [][ExhaustedRequestRefused]_vars

\* A request voucher was redeemed max_use_count >= 1 times, its owner holds
\* what it brought, and one more attempt was refused.
RequestRedemptionWitness ==
  /\ IsRedeemRequest(resp)
  /\ resp.detail = "QR code has reached its maximum usage limit"
  /\ resp.qr.max_use_count >= 1
  /\ use_count(resp.qr.id) = resp.qr.max_use_count
  /\ LedgerSum(resp.qr.user_id) = resp.qr.max_use_count * resp.qr.amount

\* ---- C10 ----------------------------------------------------------------
\* A redemption of a send voucher that succeeds was asked a positive amount
\* and has appended exactly two entries: -amount on the owner of the voucher
\* and +amount on the redeemer.
SendRedemptionEntries ==
  /\ IsRedeemSend(resp) /\ resp.exc = "ok" => resp.wrote = 2
  /\ \A q \in InFlight \cup {resp} :
        IsRedeemSend(q) /\ q.wrote > 0 =>
           q.amount > 0 /\ RedemptionEntries(q, q.qr.user_id, q.user, q.amount)

\* The balance test of a send redemption is against the owner: the attempt
\* goes on exactly when the owner holds the amount, and fails with
\* InsufficientBalance otherwise.  An attempt that comes to the limit test
\* after the voucher was redeemed once fails with VoucherUnusable.
SendRedemptionChecks ==
  \A q \in InFlight :
     IsRedeemSend(q) /\ Left(q) =>
        /\ q.pc = "balance" /\ q.amount > LedgerSum(q.qr.user_id) =>
              /\ resp'.op = q.op
              /\ Cancelled(resp') \/ Kind(resp') = "InsufficientBalance"
        /\ q.pc = "balance" /\ q.amount <= LedgerSum(q.qr.user_id) =>
              \/ Cancelled(resp')
              \/ resp' = NoResp /\ \E q2 \in BagToSet(req') : q2.pc = "commit" /\ Entered(q2)
        /\ q.pc = "count" /\ use_count(q.qr.id) >= 1 =>
              /\ resp'.op = q.op
              /\ Cancelled(resp') \/ Kind(resp') = "VoucherUnusable"

\* C10: a successful redemption of a send voucher moves the amount the
\* redeemer supplied from the owner to the redeemer, needs amount > 0 and the
\* owner (not the redeemer) to hold the amount, and after the first
\* redemption every further attempt fails with VoucherUnusable.
SendRedemption ==
  /\ []SendRedemptionEntries
  /\ [][SendRedemptionChecks]_vars

\* A send voucher was redeemed once and a further attempt was refused.
SendRedemptionWitness ==
  /\ IsRedeemSend(resp)
  /\ resp.detail = "QR code has reached its maximum usage limit"
  /\ use_count(resp.qr.id) = 1
  /\ \E i \in 1..Len(transaction) :
        transaction[i].qr_id = resp.qr.id /\ transaction[i].user_id = resp.qr.user_id
          /\ transaction[i].amount < 0

\* ---- C11 ----------------------------------------------------------------
\* A transfer that has committed was validated (amount > 0, an existing
\* payee other than the payer) and has appended exactly two entries:
\* transfer_sent of -amount on the payer naming the payee, transfer_received
\* of +amount on the payee naming the payer, neither with a voucher id.
TransferEntries ==
  /\ resp.op = "transfer" /\ resp.exc = "ok" => resp.wrote = 2
  /\ \A q \in InFlight \cup {resp} :
        q.op = "transfer" /\ q.wrote > 0 =>
           /\ q.amount > 0
           /\ q.arg \in Users
           /\ q.arg # q.user
           /\ q.wrote = 2
           /\ q.at + 1 <= Len(transaction)
           /\ transaction[q.at] =
                [user_id |-> q.user, amount |-> -q.amount,
                 transaction_type |-> TRANSFER_SENT, reference_user_id |-> q.arg,
                 qr_id |-> Null, txn |-> q.at]
           /\ transaction[q.at + 1] =
                [user_id |-> q.arg, amount |-> q.amount,
                 transaction_type |-> TRANSFER_RECEIVED, reference_user_id |-> q.user,
                 qr_id |-> Null, txn |-> q.at]

\* The commit of a transfer appends two entries, takes exactly amount from
\* the balance of the payer, adds exactly amount to the balance of the payee
\* and leaves the balance of every other account as it was.
TransferMovesAmount ==
  \A q \in InFlight :
     q.op = "transfer" /\ q.pc = "commit" /\ Left(q)
       /\ Len(transaction') > Len(transaction) =>
        /\ Len(transaction') = Len(transaction) + 2
        /\ \A u \in Users :
              LedgerSum(u)' = LedgerSum(u) + (IF u = q.user THEN -q.amount
                                              ELSE IF u = q.arg THEN q.amount ELSE 0)

\* C11: a successful transfer decreases the balance of the payer by exactly
\* amount, increases the balance of the payee by exactly amount, appends
\* exactly the two cross-referenced entries without a voucher id, and leaves
\* every other balance unchanged.
TransferEffect ==
  /\ []TransferEntries
  /\ [][TransferMovesAmount]_vars

\* A transfer of the whole balance has succeeded: the payer is left with
\* zero, the payee holds the amount.
TransferEffectWitness ==
  /\ resp.op = "transfer"
  /\ resp.exc = "ok"
  /\ resp.new_balance = 0
  /\ Len(transaction) = resp.at + 1
  /\ LedgerSum(resp.arg) = resp.amount

\* ---- C12 ----------------------------------------------------------------
\* A top-up of a positive amount ends with a success unless its caller went
\* away, and has appended exactly one entry: top-up of +amount on the account.
TopUpEntries ==
  /\ resp.op = "topup" /\ resp.amount > 0 /\ ~Cancelled(resp) => resp.exc = "ok"
  /\ \A q \in InFlight \cup {resp} :
        q.op = "topup" /\ q.amount > 0 =>
           /\ q.wrote = 1
           /\ q.at <= Len(transaction)
           /\ transaction[q.at] =
                [user_id |-> q.user, amount |-> q.amount, transaction_type |-> TOPUP,
                 reference_user_id |-> Null, qr_id |-> Null, txn |-> q.at]

\* The step that takes a top-up of a positive amount appends one entry, adds
\* exactly amount to the balance of the account and leaves every entry that
\* was there, and so every other account, unchanged.
TopUpAddsAmount ==
  \A q \in BagToSet(req') :
     q.op = "topup" /\ Entered(q) =>
        /\ Len(transaction') = Len(transaction) + 1
        /\ SubSeq(transaction', 1, Len(transaction)) = transaction
        /\ \A u \in Users :
              LedgerSum(u)' = LedgerSum(u) + (IF u = q.user THEN q.amount ELSE 0)

\* C12: a top-up with amount > 0 always succeeds, appends exactly one top-up
\* entry of +amount to the account, increases its balance by exactly amount
\* and changes the entries of no other account.
TopUpEffect ==
  /\ []TopUpEntries
  /\ [][TopUpAddsAmount]_vars

\* A fresh account was topped up: one entry, and the balance is the amount.
TopUpEffectWitness ==
  /\ resp.op = "topup"
  /\ resp.exc = "ok"
  /\ resp.amount > 0
  /\ Len(transaction) = 1
  /\ resp.new_balance = resp.amount

\* ---- C13 ----------------------------------------------------------------
\* C13: a top-up never ends without a success result or an error outcome:
\* an error raised inside it reaches the caller.
TopUpNeverSilent == resp.op = "topup" => resp.exc # "NoResult"

\* ---- C17 ----------------------------------------------------------------
\* C17: issuing a request voucher with amount <= 0 creates no voucher, so no
\* request voucher with a non-positive amount is ever in the voucher store.
NoNonPositiveRequestVoucher ==
  \A c \in qrcode : c.qr_type = REQUEST_PAYMENT => c.amount > 0

\* ---- C18 ----------------------------------------------------------------
\* C18: every request voucher expires no later than its issuance time plus
\* the configured maximum lifetime: an expiry asked beyond that ceiling
\* becomes the ceiling, an absent one becomes the ceiling, one before the
\* ceiling is kept as given.
ExpiryClamped ==
  /\ \A c \in qrcode :
        c.qr_type = REQUEST_PAYMENT => c.expire # None /\ c.expire <= now + qr_alive_delta
  /\ resp.op = "qrcode_request" =>
        LET ceiling == resp.t + qr_alive_delta
        IN /\ resp.exc = "ok"
           /\ resp.qr \in qrcode
           /\ resp.qr.expire # None
           /\ resp.qr.expire <= ceiling
           /\ resp.expire = None => resp.qr.expire = ceiling
           /\ resp.expire # None /\ resp.expire >= ceiling => resp.qr.expire = ceiling
           /\ resp.expire # None /\ resp.expire < ceiling => resp.qr.expire = resp.expire

\* A request voucher was asked with an expiry beyond the ceiling and got the
\* ceiling.
ExpiryClampedWitness ==
  /\ resp.op = "qrcode_request"
  /\ resp.expire # None
  /\ resp.expire > resp.t + qr_alive_delta
  /\ resp.qr.expire = resp.t + MAX_QR_ALIVE_HOUR

\* ---- C14 ----------------------------------------------------------------
\* Voucher c has no use left; the clock has passed its expiry.
Exhausted(c) == use_count(c.id) >= c.max_use_count
Expired(c) == c.expire # None /\ now > c.expire

\* No step turns the clock back, lowers a use count, changes a field of a
\* voucher row (a row goes only by the deletion of unused send vouchers), or
\* takes a voucher out of Exhausted or Expired.
VoucherStep ==
  /\ now' >= now
  /\ \A id \in 1..MaxQrIssue : use_count(id)' >= use_count(id)
  /\ \A c \in qrcode :
        /\ \A d \in qrcode' : d.id = c.id => d = c
        /\ c \notin qrcode' => c.qr_type = SEND_PAYMENT /\ use_count(c.id) = 0
        /\ Exhausted(c) /\ c \in qrcode' => Exhausted(c)'
        /\ Expired(c) /\ c \in qrcode' => Expired(c)'

\* An attempt that comes to the limit test of an Exhausted voucher is
\* refused there.
ExhaustedRefusedStep ==
  \A q \in InFlight :
     IsScan(q) /\ q.pc = "count" /\ Exhausted(q.qr) /\ Left(q) =>
        /\ resp'.op = q.op
        /\ resp'.wrote = 0
        /\ Cancelled(resp') \/ Kind(resp') = "VoucherUnusable"

\* An attempt that loads an Expired voucher is refused at once: none is in
\* flight, none has succeeded.
ExpiredNotRedeemed ==
  /\ \A q \in InFlight : IsScan(q) => q.qr.expire = None \/ q.t <= q.qr.expire
  /\ IsScan(resp) /\ resp.exc = "ok" => resp.qr.expire = None \/ resp.t <= resp.qr.expire

\* C14: a voucher that is Exhausted or Expired stays so in every later state
\* and an attempt that finds it so is refused; use_count never decreases and
\* no operation changes max_use_count or expire_at of a voucher.
UnusableIsTerminal ==
  /\ []ExpiredNotRedeemed
  /\ [][VoucherStep /\ ExhaustedRefusedStep]_vars

\* A send voucher was redeemed once, and a later attempt made before its
\* expiry has been refused.
UnusableIsTerminalWitness ==
  /\ IsRedeemSend(resp)
  /\ resp.qr \in qrcode
  /\ use_count(resp.qr.id) = 1
  /\ Exhausted(resp.qr)
  /\ ~Expired(resp.qr)
  /\ Kind(resp) = "VoucherUnusable"

\* ---- C15 ----------------------------------------------------------------
\* The send vouchers of account u that no entry refers to.
UnusedSend(u) ==
  {c \in qrcode : c.qr_type = SEND_PAYMENT /\ c.user_id = u /\ use_count(c.id) = 0}

\* C15: in every reachable state each account owns at most one send voucher
\* with use_count = 0, and an IssueSendVoucher that succeeded has left its new
\* voucher as the only unused send voucher of its owner.
OneUnusedSendVoucher ==
  /\ \A u \in Users : Cardinality(UnusedSend(u)) <= 1
  /\ resp.op = "qrcode_send" /\ resp.exc = "ok" => UnusedSend(resp.user) = {resp.qr}

\* ---- C16 ----------------------------------------------------------------
\* Voucher c is one IssueSendVoucher of account u may remove.
OwnUnusedSend(c, u) ==
  c.qr_type = SEND_PAYMENT /\ c.user_id = u /\ use_count(c.id) = 0

\* C16: the step in which IssueSendVoucher of an account removes vouchers
\* removes only unused send vouchers of that account: every other voucher
\* and every ledger entry is left as it was.
IssueSendFrameStep ==
  \A q \in InFlight' :
     q.op = "qrcode_send" /\ Entered(q) =>
        /\ transaction' = transaction
        /\ \A c \in qrcode : ~OwnUnusedSend(c, q.user) => c \in qrcode'

IssueSendFrame == [][IssueSendFrameStep]_vars

\* ---- C19 ----------------------------------------------------------------
\* C19: a write conflict at the commit of a withdrawal, a transfer or a
\* redemption makes the engine run the operation again; a conflict is told
\* to the caller only after the second attempt, as TransientConflict, and
\* with no entry written.
WriteConflictRetried ==
  resp.op \in ConflictOps /\ resp.exc = "DBAPIError" =>
     Kind(resp) = "TransientConflict" /\ resp.wrote = 0

\* ---- C20 ----------------------------------------------------------------
IsGetEntry(r) == r.op = "get_transaction_details"

\* C20: GetEntry(id) shows the details of the entry only when the entry is
\* the caller's; for an entry of another account it fails with Unauthorized
\* and shows no field of the entry; for an id with no entry it fails with
\* not-found.
EntryOnlyToOwner ==
  IsGetEntry(resp) =>
     IF ~HasEntry(resp.arg)
     THEN Kind(resp) = "EntryNotFound" /\ resp.body = NoDetails
     ELSE IF transaction[resp.arg].user_id = resp.user
     THEN /\ resp.exc = "ok"
          /\ resp.body.id = resp.arg
          /\ resp.body.amount = transaction[resp.arg].amount
          /\ resp.body.transaction_type = transaction[resp.arg].transaction_type
          /\ resp.body.reference_user_name = transaction[resp.arg].reference_user_id
     ELSE /\ Kind(resp) = "Unauthorized"
          /\ resp.detail = "Access denied to this transaction"
          /\ resp.body = NoDetails

\* An account asked for the received half of a transfer that went to another
\* account and was refused.
EntryOnlyToOwnerWitness ==
  /\ IsGetEntry(resp)
  /\ HasEntry(resp.arg)
  /\ transaction[resp.arg].transaction_type = TRANSFER_RECEIVED
  /\ transaction[resp.arg].user_id # resp.user
  /\ Kind(resp) = "Unauthorized"

\* ---- C21 ----------------------------------------------------------------
IsPublicView(r) == r.op = "get_qrcode_by_uuid"

\* C21: the public view of a send voucher is returned only if the voucher is
\* usable, not expired and with a use left; for a send voucher that is
\* expired or already redeemed the lookup fails with the not-found error.
PublicViewOnlyUsable ==
  \A c \in qrcode :
     IsPublicView(resp) /\ resp.arg = c.qr_id /\ c.qr_type = SEND_PAYMENT =>
        IF ~Expired(c) /\ ~Exhausted(c)
        THEN resp.exc = "ok" /\ resp.qr = c
        ELSE resp.exc = "TransactionNotFoundException" /\ resp.qr = NoQr

\* ---- C22 ----------------------------------------------------------------
\* What a redeemer is told: the exception and its detail.
Outcome(r) == <<r.exc, r.detail>>

\* What the redeemer of an expired voucher is told.
ExpiredOutcome == <<"TransactionNotFoundException", "QR code has expired or is invalid">>

\* C22: the redeemer of an exhausted voucher is told exactly what the redeemer
\* of an expired voucher is told, the same error with the same detail, so
\* the answer does not show which of the two the voucher is.
UnusableOutcomeUniform ==
  /\ IsScan(resp) /\ ExpiredFor(resp) => Outcome(resp) = ExpiredOutcome
  /\ IsScan(resp) /\ ~ExpiredFor(resp) /\ ExhaustedFor(resp) /\ Kind(resp) = "VoucherUnusable" =>
        Outcome(resp) = ExpiredOutcome

\* ---- C23 ----------------------------------------------------------------
\* C23: IssueSendVoucher is one unit of work: a step that takes vouchers out
\* of the store is the step that puts the new send voucher in, so that a
\* cancelled or failed issuance has deleted nothing.
IssueSendAtomicStep ==
  (\E c \in qrcode : c \notin qrcode') =>
     \E d \in qrcode' : d \notin qrcode /\ d.qr_type = SEND_PAYMENT

IssueSendAtomic == [][IssueSendAtomicStep]_vars

\* ---- C24 ----------------------------------------------------------------
\* Every committed entry is still there, under its id and unchanged.
AppendOnlyStep ==
  /\ Len(transaction') >= Len(transaction)
  /\ \A i \in 1..Len(transaction) : transaction'[i] = transaction[i]

\* C24: the ledger is append-only: across every step of every operation an
\* entry that is committed stays in the ledger with the same account,
\* amount, kind, reference account and voucher id.
AppendOnly == [][AppendOnlyStep]_vars

\* A transfer has appended its pair after entries committed before it.
AppendOnlyWitness ==
  /\ resp.op = "transfer"
  /\ resp.exc = "ok"
  /\ resp.wrote = 2
  /\ resp.at > 1
  /\ Len(transaction) >= resp.at + 1

\* ---- C25 ----------------------------------------------------------------
\* The use count as the code computes it is the number of redemptions.
UseCountIsRedemptions ==
  \A c \in qrcode : current_use_count(c) = use_count(c.id)

\* A step that commits a redemption of voucher c appends two entries with
\* its id and raises the computed count by one; no other step changes it.
UseCountStep ==
  \A c \in qrcode :
     c \in qrcode' =>
        IF /\ Len(transaction') > Len(transaction)
           /\ transaction'[Len(transaction) + 1].qr_id = c.id
        THEN /\ Len(transaction') = Len(transaction) + 2
             /\ transaction'[Len(transaction) + 2].qr_id = c.id
             /\ current_use_count(c)' = current_use_count(c) + 1
        ELSE current_use_count(c)' = current_use_count(c)

\* C25: for every voucher, of either type, the computed use_count is the
\* number of committed redemptions of the voucher, not the number of
\* entries that refer to it: each redemption writes two entries with the
\* id of the voucher and raises use_count by exactly one.
UseCountPerRedemption ==
  /\ []UseCountIsRedemptions
  /\ [][UseCountStep]_vars

\* A request voucher and a send voucher have each been redeemed once: two
\* entries each, a count of one each.
UseCountPerRedemptionWitness ==
  /\ \E c \in qrcode : c.qr_type = REQUEST_PAYMENT /\ current_use_count(c) = 1
  /\ \E c \in qrcode : c.qr_type = SEND_PAYMENT /\ current_use_count(c) = 1
  /\ Cardinality({i \in 1..Len(transaction) : transaction[i].qr_id # Null}) = 4

\* ---- C26 ----------------------------------------------------------------
\* C26: the pruning step of IssueSendVoucher deletes every send voucher that
\* no ledger entry refers to, whatever other entries the ledger holds, also
\* when the ledger has entries with no voucher id.
PruneStep ==
  \A q \in InFlight' :
     q.op = "qrcode_send" /\ Entered(q) =>
        \A c \in qrcode :
           c.qr_type = SEND_PAYMENT /\ use_count(c.id) = 0 => c \notin qrcode'

PruneAllUnreferenced == [][PruneStep]_vars

\* ---- C27 ----------------------------------------------------------------
\* The balances of the accounts of S, added up.
RECURSIVE BalanceOfAll(_)
BalanceOfAll(S) ==
  IF S = {} THEN 0
  ELSE LET u == CHOOSE x \in S : TRUE
       IN total_balance(u) + BalanceOfAll(S \ {u})

TotalBalance == BalanceOfAll(Users)
ToppedUp == SumOver({i \in 1..Len(transaction) : transaction[i].transaction_type = TOPUP})
Withdrawn == -SumOver({i \in 1..Len(transaction) : transaction[i].transaction_type = WITHDRAWAL})

MoneyConservedState == TotalBalance = ToppedUp - Withdrawn

\* A step that commits a transfer or a redemption, or that issues or prunes
\* vouchers, leaves the total of the balances as it was.
MovesNoMoneyIn ==
  \/ qrcode' # qrcode
  \/ /\ Len(transaction') > Len(transaction)
     /\ transaction'[Len(transaction) + 1].transaction_type \in PairKinds

MoneyConservedStep == MovesNoMoneyIn => TotalBalance' = TotalBalance

\* C27: money is conserved: in every state the balances of all accounts add
\* up to the top-ups minus the withdrawals, and transfers, redemptions of
\* either type of voucher, voucher issuance and pruning never change the
\* total.
MoneyConserved ==
  /\ []MoneyConservedState
  /\ [][MoneyConservedStep]_vars

\* Money was topped up, moved to another account by a transfer or a
\* redemption, and withdrawn there.
MoneyConservedWitness ==
  /\ resp.op = "withdraw"
  /\ resp.exc = "ok"
  /\ Withdrawn > 0
  /\ \E i \in 1..Len(transaction) :
        /\ transaction[i].transaction_type \in PairKinds
        /\ transaction[i].user_id = resp.user
        /\ transaction[i].amount > 0

\* ---- C28 ----------------------------------------------------------------
\* Every committed entry with a voucher id refers to a stored voucher.
VoucherRefsState ==
  \A i \in 1..Len(transaction) :
     transaction[i].qr_id # Null => \E c \in qrcode : c.id = transaction[i].qr_id

\* No step deletes a voucher that has a committed redemption.
RedeemedKeptStep ==
  \A c \in qrcode : use_count(c.id) >= 1 => c \in qrcode'

\* C28: in every state, also when the pruning of IssueSendVoucher runs
\* between the usability check and the commit of a redemption of a send
\* voucher, every committed entry with a voucher id refers to a voucher that
\* is still in the store, and a voucher with a committed redemption is never
\* deleted.
VoucherRefsIntact ==
  /\ []VoucherRefsState
  /\ [][RedeemedKeptStep]_vars

\* A redemption loaded a send voucher, the voucher was pruned before the
\* commit, and the commit was refused.
VoucherRefsIntactWitness ==
  /\ IsRedeemSend(resp)
  /\ resp.exc = "IntegrityError"
  /\ resp.wrote = 0
  /\ resp.qr \notin qrcode

====
